---- MODULE Spec2Model ----
(***************************************************************************)
(* Benchmark-results dashboard: the memoized data layer (api.ts), the      *)
(* DashboardPage table state (column/global filters, sorting, selection,   *)
(* pagination), the selection-to-visualisation resolver and the derived    *)
(* metrics of ComparisonCharts.                                            *)
(*                                                                         *)
(* Conventions                                                             *)
(*  - a JavaScript string is a sequence of one-character strings;          *)
(*  - a row model is a sequence of row numbers 1..n in the order of the    *)
(*    loaded array (TanStack's default row id is the array index);         *)
(*  - null/undefined is NoValue (strings) or NoNum (numbers);              *)
(*  - a fetched document is held by reference (its name), as in the code.  *)
(***************************************************************************)
EXTENDS Integers, Sequences, FiniteSets, TLC

VARIABLES
    server,         \* the document /data.json served during this page load
    mounted,        \* App and DashboardPage effects have run
    cached,         \* api.ts: let cached: StaticData | null
    pc,             \* position of each accessor call inside loadData
    fetchCount,     \* number of fetch("/data.json") issued so far
    cacheWrites,    \* number of assignments to cached so far
    runs,           \* DashboardPage: useState<RunRow[]>([])
    loading,        \* DashboardPage: useState(true)
    modelMap,       \* DashboardPage: useState<Map<string, CatalogModel>>
    publishedAt,    \* App: useState<string | null>(null)
    globalFilter,   \* DashboardPage: useState("")
    columnFilters,  \* DashboardPage: useState<ColumnFiltersState>([])
    rowSelection,   \* DashboardPage: useState<Record<string, boolean>>({})
    sorting,        \* DashboardPage: useState<SortingState>
    pageIndex,      \* table.getState().pagination.pageIndex
    fileReqs,       \* ComparisonCharts: getFileScores() promises not settled yet
    filesByRun,     \* ComparisonCharts: useState<Map<string, FileResultRow[]>>, its keys
    mRun,           \* derived metrics: the run passed to the pure functions
    mModel,         \* derived metrics: the joined catalog model (or NoDoc)
    mCost,          \* derived metrics: result of computeRunCost
    mFmt,           \* derived metrics: result of formatCost
    mEff,           \* derived metrics: efficiency entry of CostEfficiencyChart
    tRun,           \* text helpers: the run passed to getLabel
    tLabel,         \* text helpers: result of getLabel
    tText,          \* text helpers: the text passed to truncatePrompt
    tMax,           \* text helpers: the max passed to truncatePrompt
    tPrompt,        \* text helpers: result of truncatePrompt
    cRuns,          \* charts: the runs prop, a list of rows
    cRelease,       \* charts: data of PerformanceByReleaseDateChart
    cEffData        \* charts: data of CostEfficiencyChart

vars ==
    << server, mounted, cached, pc, fetchCount, cacheWrites, runs, loading,
       modelMap, publishedAt, globalFilter, columnFilters, rowSelection,
       sorting, pageIndex, fileReqs, filesByRun, mRun, mModel, mCost, mFmt, mEff,
       tRun, tLabel, tText, tMax, tPrompt, cRuns, cRelease, cEffData >>

apiVars == << cached, pc, fetchCount, cacheWrites >>
pageVars == << runs, loading, modelMap, publishedAt >>
tableVars == << globalFilter, columnFilters, rowSelection, sorting, pageIndex >>
metricVars == << mRun, mModel, mCost, mFmt, mEff >>
textVars == << tRun, tLabel, tText, tMax, tPrompt >>
chartVars == << cRuns, cRelease, cEffData >>
fileVars == << fileReqs, filesByRun >>
dashVars == << server, mounted, apiVars, pageVars, tableVars, fileVars >>
pureVars == << metricVars, textVars, chartVars >>

----------------------------------------------------------------------------
(* Bounds of the model *)

\* rows of the small document
NumSmallRuns == 3
\* rows of the large document beyond one full page
BigExtra == 2
\* the user ticks the checkboxes of the rows numbered 1..MaxClickRow only
MaxClickRow == 2

\* truncatePrompt is applied to texts of up to MaxTextLen characters
MaxTextLen == 4
\* truncatePrompt is applied with max in 1..MaxPromptMax
MaxPromptMax == 3
\* getLabel is applied to model names of up to LabelLimit + MaxLabelOver characters
MaxLabelOver == 2

\* the charts are given lists of 1..MaxChartRuns rows
MaxChartRuns == 3

(* Program constants *)

\* initialState: { pagination: { pageSize: 50 } }
PageSize == 50
\* (inp / 1_000_000) * price
TokensPerPriceUnit == 1000000
\* getLabel: model.length > 28
LabelLimit == 28
\* getLabel: model.slice(0, 26)
LabelKeep == 26

----------------------------------------------------------------------------
(* Strings *)

NoValue == << "undefined" >>
NoNum == 0 - 1
NoDoc == "none"

Lower(ch) ==
    CASE ch = "K" -> "k"
      [] ch = "Q" -> "q"
      [] ch = "W" -> "w"
      [] ch = "X" -> "x"
      [] OTHER -> ch

\* String.prototype.toLowerCase
ToLowerCase(s) == [i \in 1..Len(s) |-> Lower(s[i])]

\* String.prototype.includes
Includes(s, sub) ==
    \E i \in 0..(Len(s) - Len(sub)) : SubSeq(s, i + 1, i + Len(sub)) = sub

----------------------------------------------------------------------------
(* The exported documents (data.json) a page load may be served.           *)
(* RunRow / CatalogModel / StaticData follow the types of api.ts; numbers  *)
(* that are fractions in the export are scaled to integers: avg_score in   *)
(* thousandths, prices in price units per million tokens.                  *)

RunRow(i, model, provider, score, inTok, outTok, ms) ==
    [ id |-> i,
      status |-> << "q" >>,
      dataset |-> << "q", "w" >>,
      prompt_version |-> << "q" >>,
      schema_version |-> << "q" >>,
      provider |-> provider,
      model |-> model,
      avg_score |-> score,
      total_duration_ms |-> ms,
      started_at |-> i,
      total_input_tokens |-> inTok,
      total_output_tokens |-> outTok,
      prompt_preview |-> NoValue ]

CatalogModel(id, price, released) ==
    [ id |-> id, costPer1MTokens |-> price, releaseDate |-> released ]

SmallModels == << << "k" >>, << "k", "q" >>, << "x" >> >>
SmallProviders == << << "w" >>, << "X" >> >>
SmallScores == << 950, 800, NoNum >>
SmallTokens == << 2000000, 0, 500000 >>

\* every third run of the small dataset has the empty string as its status
SmallRun(i) ==
    [ RunRow(i,
             SmallModels[((i - 1) % 3) + 1],
             SmallProviders[((i - 1) % 2) + 1],
             SmallScores[((i - 1) % 3) + 1],
             SmallTokens[((i - 1) % 3) + 1],
             SmallTokens[(i % 3) + 1],
             1000 * i)
      EXCEPT !.status = IF i % 3 = 0 THEN << >> ELSE @ ]

BigRun(i) ==
    RunRow(i,
           IF i = 1 THEN << "x" >> ELSE << "k" >>,
           << "w" >>,
           IF i % 2 = 0 THEN 900 ELSE 500,
           1000000, 1000000, 1000 * i)

\* costPer1MTokens absent
NoPrice == [input |-> NoNum, output |-> NoNum]
\* modelMap.get(...) === undefined
NoModel == CatalogModel(NoValue, NoPrice, NoNum)

CatalogModels ==
    << CatalogModel(<< "k" >>, [input |-> 3, output |-> 15], 20240101),
       CatalogModel(<< "k", "q" >>, NoPrice, 20240601) >>

DocNames == { "empty", "small", "big" }

\* what a document reference can hold: a document, or nothing yet
DocRefs == DocNames \cup { NoDoc }

\* FileResultRow[]: file ids with scores in thousandths
FileResults(ids) == [ k \in 1..Len(ids) |-> [file_id |-> ids[k], score |-> 500 * k] ]

\* fileScores, keyed by run id: the last run of the small document has no entry,
\* the first two runs of the large document have none
SmallFileScores ==
    [ id \in 1..(NumSmallRuns - 1) |->
        IF id = 1 THEN FileResults(<< "a", "b" >>) ELSE FileResults(<< "b" >>) ]

BigFileScores ==
    [ id \in 3..(PageSize + BigExtra) |-> FileResults(<< "a" >>) ]

\* StaticData
Doc(name) ==
    [ exportedAt |-> 20250101,
      catalog |-> [ models |-> CatalogModels ],
      runs |-> CASE name = "small" -> [i \in 1..NumSmallRuns |-> SmallRun(i)]
                 [] name = "big" -> [i \in 1..(PageSize + BigExtra) |-> BigRun(i)]
                 [] OTHER -> << >>,
      fileScores |-> CASE name = "small" -> SmallFileScores
                       [] name = "big" -> BigFileScores
                       [] OTHER -> << >> ]

SmallDoc == Doc("small")
BigDoc == Doc("big")
EmptyDoc == Doc("empty")

\* the Map built by the getCatalog().then callback: for (m of models) map.set(m.id, m)
BuildModelMap(models) ==
    [ id \in { models[i].id : i \in 1..Len(models) } |->
        LET last == CHOOSE i \in 1..Len(models) :
                        /\ models[i].id = id
                        /\ \A j \in (i + 1)..Len(models) : models[j].id # id
        IN models[last] ]

CatalogIndex == BuildModelMap(CatalogModels)

\* modelMap.get(id)
ModelMapGet(id) ==
    IF modelMap # NoDoc /\ id \in DOMAIN CatalogIndex THEN CatalogIndex[id] ELSE NoModel


----------------------------------------------------------------------------
(* Tabular engine: useReactTable with getCoreRowModel, getFilteredRowModel, *)
(* getFacetedRowModel, getSortedRowModel and getPaginationRowModel.         *)
(* The per-row results of the filter and sorting functions depend on the    *)
(* immutable document only; they are tabulated once per document.           *)

\* columns with enableColumnFilter: true
FilterableCols ==
    { "model", "provider", "dataset", "prompt_version", "schema_version", "status" }

\* accessor columns holding text: the columns the global filter can match with the
\* terms of GlobalInputs (the remaining accessor columns render digits, "$", ".",
\* "/", ":", "-" and month names, none of which contains a letter of those terms)
GlobalCols == FilterableCols \cup { "prompt_preview" }

\* header cells the user clicks to sort
SortInputs == { "started_at" }

\* texts typed into the "Filter..." box
GlobalInputs == { << >>, << "X" >> }

\* the RunRow[] of a document
RowsOf(d) ==
    CASE d = "small" -> SmallDoc.runs
      [] d = "big" -> BigDoc.runs
      [] OTHER -> << >>

RowNumbers(d) == 1..Len(RowsOf(d))

\* String(v ?? "")
Stringify(v) == IF v = NoValue THEN << >> ELSE v

\* every text a filter can be set to: the options of the filter controls and the
\* texts typed into the global filter
FilterTerms ==
    GlobalInputs \cup
        UNION { { Stringify(RowsOf(d)[r][col]) : r \in RowNumbers(d), col \in FilterableCols } :
                  d \in DocNames }

\* column.getAutoFilterFn(): decided by the type of the first row's value
AutoFilterFn(d, col) ==
    IF Len(RowsOf(d)) > 0 /\ RowsOf(d)[1][col] # NoValue
    THEN "includesString"
    ELSE "weakEquals"

\* filterFns.includesString on a cell value
IncludesString(v, filterValue) ==
    /\ v # NoValue
    /\ Includes(ToLowerCase(v), ToLowerCase(filterValue))

\* filterFns.weakEquals on a cell value
WeakEquals(v, filterValue) == v = filterValue

\* the column's resolved filterFn applied to a row
ColumnFilterFn(d, r, col, filterValue) ==
    IF AutoFilterFn(d, col) = "includesString"
    THEN IncludesString(RowsOf(d)[r][col], filterValue)
    ELSE WeakEquals(RowsOf(d)[r][col], filterValue)

\* column.getCanGlobalFilter(): the first row's value is a string or a number
CanGlobalFilter(d, col) == Len(RowsOf(d)) > 0 /\ RowsOf(d)[1][col] # NoValue

\* the rows a column filter tags true: row.columnFilters[id] = filterFn(row, id, value)
ColumnFilterTable ==
    [ d \in DocRefs |-> [ col \in FilterableCols |-> [ fv \in FilterTerms |->
        { r \in RowNumbers(d) : ColumnFilterFn(d, r, col, fv) } ] ] ]

\* the rows the global filter tags true: some globally filterable column matches
GlobalFilterTable ==
    [ d \in DocRefs |-> [ fv \in FilterTerms |->
        { r \in RowNumbers(d) :
            \E col \in GlobalCols :
                CanGlobalFilter(d, col) /\ IncludesString(RowsOf(d)[r][col], fv) } ] ]

\* the distinct stringified values of a column, and the rows holding each
ColumnValueTable ==
    [ d \in DocRefs |-> [ col \in FilterableCols |->
        { Stringify(RowsOf(d)[r][col]) : r \in RowNumbers(d) } ] ]

RowsWithValueTable ==
    [ d \in DocRefs |-> [ col \in FilterableCols |-> [ v \in ColumnValueTable[d][col] |->
        { r \in RowNumbers(d) : Stringify(RowsOf(d)[r][col]) = v } ] ] ]

\* table.getCoreRowModel().rows, as the set of row numbers (row order is row number)
CoreRows == RowNumbers(runs)

\* ids of the active column filters, columnFilters.map(d => d.id)
ColumnFilterIds == { columnFilters[i].id : i \in 1..Len(columnFilters) }

\* the global filter takes part when it is non-empty and some column can be searched
GlobalFilterActive ==
    /\ globalFilter # << >>
    /\ \E col \in GlobalCols : CanGlobalFilter(runs, col)

\* filterRowsImpl over the column filters from the i-th on, skipping column `skip`:
\* a row stays unless one of the filterable ids tagged it false
RECURSIVE FilterByColumns(_, _, _)
FilterByColumns(rows, i, skip) ==
    IF i > Len(columnFilters)
    THEN rows
    ELSE IF columnFilters[i].id = skip
         THEN FilterByColumns(rows, i + 1, skip)
         ELSE FilterByColumns(
                  rows \cap ColumnFilterTable[runs][columnFilters[i].id][columnFilters[i].value],
                  i + 1, skip)

\* filterRowsImpl for the "__global__" id
FilterByGlobal(rows) ==
    IF GlobalFilterActive THEN rows \cap GlobalFilterTable[runs][globalFilter] ELSE rows

\* column filters OR'ed together instead of AND'ed
FilteredRowsAnyColumn ==
    IF CoreRows = { } \/ (Len(columnFilters) = 0 /\ globalFilter = << >>)
    THEN CoreRows
    ELSE FilterByGlobal(
             IF Len(columnFilters) = 0
             THEN CoreRows
             ELSE UNION { ColumnFilterTable[runs][columnFilters[i].id][columnFilters[i].value] :
                            i \in 1..Len(columnFilters) })

\* table.getFilteredRowModel().rows
FilteredRows ==
    IF CoreRows = { } \/ (Len(columnFilters) = 0 /\ globalFilter = << >>)
    THEN CoreRows
    ELSE FilterByGlobal(FilterByColumns(CoreRows, 1, "__none__"))

\* the faceted rows narrowed by the column's own filter as well
FacetedRowsOwnIncluded(col) ==
    IF CoreRows = { } \/ (Len(columnFilters) = 0 /\ globalFilter = << >>)
    THEN CoreRows
    ELSE FilterByGlobal(FilterByColumns(CoreRows, 1, "__none__"))

\* table.getFacetedRowModel(columnId).rows: every filter but the column's own
FacetedRows(col) ==
    IF CoreRows = { } \/ (Len(columnFilters) = 0 /\ globalFilter = << >>)
    THEN CoreRows
    ELSE FilterByGlobal(FilterByColumns(CoreRows, 1, col))

\* the distinct values of a column over a set of rows
DistinctValues(col, rows) ==
    { v \in ColumnValueTable[runs][col] : RowsWithValueTable[runs][col][v] \cap rows # { } }

\* ColumnFilter: values, the distinct stringified values over the faceted rows
ColumnFilterValues(col) == DistinctValues(col, FacetedRows(col))

\* ColumnFilter returns null when values.length <= 1
ColumnFilterShown(col) == Cardinality(ColumnFilterValues(col)) > 1

\* column.getFilterValue()
GetFilterValue(col) ==
    IF col \in ColumnFilterIds
    THEN LET i == CHOOSE k \in 1..Len(columnFilters) : columnFilters[k].id = col
         IN  columnFilters[i].value
    ELSE NoValue

\* the option the <select> shows: value={columnFilterValue ?? ""}, falling back to
\* the first option ("All") when no option carries that value
SelectShown(col) ==
    LET v == Stringify(GetFilterValue(col))
    IN  IF v \in ColumnFilterValues(col) THEN v ELSE << >>

\* column.setFilterValue(value): auto-removed when falsy, replaced in place when
\* the column already has a filter, appended otherwise
SetFilterValue(col, value) ==
    IF value = NoValue \/ value = << >>
    THEN SelectSeq(columnFilters, LAMBDA d : d.id # col)
    ELSE IF col \in ColumnFilterIds
         THEN [i \in 1..Len(columnFilters) |->
                 IF columnFilters[i].id = col
                 THEN [id |-> col, value |-> value]
                 ELSE columnFilters[i]]
         ELSE Append(columnFilters, [id |-> col, value |-> value])

----------------------------------------------------------------------------
(* Sorting and pagination *)

CharRank(ch) ==
    CASE ch = "k" -> 1
      [] ch = "q" -> 2
      [] ch = "w" -> 3
      [] ch = "x" -> 4
      [] OTHER -> 0

\* compareBasic on strings: negative, 0 or positive
CompareText(a, b) ==
    LET n == IF Len(a) < Len(b) THEN Len(a) ELSE Len(b)
        diff == { i \in 1..n : a[i] # b[i] }
    IN  IF diff = { }
        THEN Len(a) - Len(b)
        ELSE LET i == CHOOSE k \in diff : \A j \in diff : k <= j
             IN  CharRank(a[i]) - CharRank(b[i])

\* the column's sortingFn on two rows (text columns compare case-insensitively;
\* started_at is an ISO-8601 text whose order is the order of the timestamps)
CompareColumn(d, a, b, col) ==
    IF col = "started_at"
    THEN RowsOf(d)[a][col] - RowsOf(d)[b][col]
    ELSE CompareText(ToLowerCase(RowsOf(d)[a][col]), ToLowerCase(RowsOf(d)[b][col]))

\* the sortingFn tabulated: the number of rows sorting strictly before a row
SortRankTable ==
    [ d \in DocRefs |-> [ col \in SortInputs |-> [ a \in RowNumbers(d) |->
        Cardinality({ b \in RowNumbers(d) : CompareColumn(d, b, a, col) < 0 }) ] ] ]

\* the comparator of getSortedRowModel from the i-th sort entry on: the first entry
\* that tells the rows apart, inverted when desc, else the original row order
RECURSIVE RowBeforeFrom(_, _, _)
RowBeforeFrom(a, b, i) ==
    IF i > Len(sorting)
    THEN a < b
    ELSE LET ra == SortRankTable[runs][sorting[i].id][a]
             rb == SortRankTable[runs][sorting[i].id][b]
         IN  IF ra = rb THEN RowBeforeFrom(a, b, i + 1)
             ELSE IF sorting[i].desc THEN ra > rb ELSE ra < rb

RowBefore(a, b) == RowBeforeFrom(a, b, 1)

\* position (from 1) of a filtered row in table.getSortedRowModel().rows
SortedPosition(r) == 1 + Cardinality({ b \in FilteredRows : RowBefore(b, r) })

\* table.getPageCount(): Math.ceil(rowCount / pageSize)
PageCount == (Cardinality(FilteredRows) + PageSize - 1) \div PageSize

\* the row is one of table.getRowModel().rows, the rows of the current page;
\* with a single page every filtered row is on it
RowOnPage(r) ==
    /\ r \in FilteredRows
    /\ \/ pageIndex = 0 /\ Cardinality(FilteredRows) <= PageSize
       \/ /\ pageIndex * PageSize < SortedPosition(r)
          /\ SortedPosition(r) <= (pageIndex + 1) * PageSize

\* column.getIsSorted()
GetIsSorted(col) ==
    LET hit == { i \in 1..Len(sorting) : sorting[i].id = col }
    IN  IF hit = { } THEN "none"
        ELSE IF sorting[CHOOSE i \in hit : TRUE].desc THEN "desc" ELSE "asc"

\* column.getFirstSortDir(): "asc" for text columns (getAutoSortDir)
FirstSortDir(col) == "asc"

\* column.getNextSortingOrder() with enableSortingRemoval
NextSortingOrder(col) ==
    LET isSorted == GetIsSorted(col)
    IN  IF isSorted = "none" THEN FirstSortDir(col)
        ELSE IF isSorted # FirstSortDir(col) THEN "none"
        ELSE IF isSorted = "desc" THEN "asc" ELSE "desc"

\* column.toggleSorting(undefined, false): a plain click on a header
ToggleSortingResult(col) ==
    LET next == NextSortingOrder(col)
        existing == GetIsSorted(col) # "none"
        isLast == Len(sorting) > 0 /\ sorting[Len(sorting)].id = col
        action == IF Len(sorting) > 0 /\ ~isLast THEN "replace"
                  ELSE IF existing THEN (IF next = "none" THEN "remove" ELSE "toggle")
                  ELSE "replace"
    IN  CASE action = "toggle" ->
                [i \in 1..Len(sorting) |->
                    IF sorting[i].id = col
                    THEN [id |-> col, desc |-> next = "desc"]
                    ELSE sorting[i]]
          [] action = "remove" -> SelectSeq(sorting, LAMBDA d : d.id # col)
          [] OTHER -> << [id |-> col, desc |-> next = "desc"] >>

----------------------------------------------------------------------------
(* Row selection and the selection-to-visualisation resolver.               *)
(* A row model is the set of its row numbers; its rows come in row order.   *)

\* the selected rows taken from the filtered row model instead of the core one
SelectedRowsOfFiltered == { r \in FilteredRows : r \in rowSelection }

\* table.getSelectedRowModel().rows: the selected rows of the core row model
SelectedRows == { r \in CoreRows : r \in rowSelection }

\* table.getIsAllRowsSelected()
GetIsAllRowsSelected ==
    /\ FilteredRows # { }
    /\ rowSelection # { }
    /\ \A r \in FilteredRows : r \in rowSelection

\* select-all over every loaded row instead of the rows matching the filters
ToggleAllRowsSelectedCore(value) ==
    IF value
    THEN rowSelection \cup CoreRows
    ELSE rowSelection \ CoreRows

\* table.toggleAllRowsSelected(value): over table.getPreGroupedRowModel().flatRows
ToggleAllRowsSelected(value) ==
    IF value
    THEN rowSelection \cup FilteredRows
    ELSE rowSelection \ FilteredRows

\* row.toggleSelected(value)
ToggleSelected(r, value) ==
    IF value THEN rowSelection \cup { r } ELSE rowSelection \ { r }

\* selectedRuns (useMemo over getSelectedRowModel)
selectedRuns == SelectedRows

\* filteredRuns (useMemo over getFilteredRowModel)
filteredRuns == FilteredRows

\* const chartRuns = selectedRuns.length >= 2 ? selectedRuns : filteredRuns
chartRuns == IF Cardinality(selectedRuns) >= 2 THEN selectedRuns ELSE filteredRuns

\* the page view with an error panel of its own for a failed runs fetch
PageViewWithError ==
    IF pc["getRuns"] = "rejected" THEN "error"
    ELSE IF loading THEN "loading"
    ELSE IF Len(RowsOf(runs)) = 0 THEN "empty"
    ELSE "grid"

\* what DashboardPage returns: "Loading results...", "No benchmark runs found.",
\* or the grid
PageView ==
    IF loading THEN "loading"
    ELSE IF Len(RowsOf(runs)) = 0 THEN "empty"
    ELSE "grid"

\* the page renders the grid: neither "Loading results..." nor "No benchmark runs found."
GridRendered == ~loading /\ Len(RowsOf(runs)) > 0

\* the comparison view rendered without the length gate
ComparisonRenderedUngated == GridRendered

\* {chartRuns.length >= 2 && <ComparisonCharts runs={chartRuns} ... />}
ComparisonRendered == GridRendered /\ Cardinality(chartRuns) >= 2

\* <SummaryCards runs={runs} />: rendered by ComparisonCharts unconditionally, over
\* the runs prop it was given; runs.reduce without an initial value
SummaryCardsEvaluated == ComparisonRendered
SummaryCardsRuns == chartRuns

----------------------------------------------------------------------------
(* Derived metrics. A cost is the exact rational numerator over             *)
(* TokensPerPriceUnit: (inp / 1e6) * pin + (out / 1e6) * pout is            *)
(* (inp * pin + out * pout) / 1e6; floating-point rounding is not modelled. *)

\* a result that has not been computed yet
Pending == 0 - 2

\* x ?? 0
OrZero(x) == IF x = NoNum THEN 0 ELSE x

\* computeRunCost giving up as soon as either token count is zero
computeRunCostEitherZero(run, model) ==
    IF model = NoModel \/ model.costPer1MTokens = NoPrice
    THEN NoNum
    ELSE LET inp == OrZero(run.total_input_tokens)
             out == OrZero(run.total_output_tokens)
         IN  IF inp = 0 \/ out = 0
             THEN NoNum
             ELSE inp * model.costPer1MTokens.input + out * model.costPer1MTokens.output

\* computeRunCost(run, model): NoNum for null, else the numerator of the cost
computeRunCost(run, model) ==
    IF model = NoModel \/ model.costPer1MTokens = NoPrice
    THEN NoNum
    ELSE LET inp == OrZero(run.total_input_tokens)
             out == OrZero(run.total_output_tokens)
         IN  IF inp = 0 /\ out = 0
             THEN NoNum
             ELSE inp * model.costPer1MTokens.input + out * model.costPer1MTokens.output

\* round to nearest, ties up: Math.round and Number.prototype.toFixed on a
\* non-negative quotient num / den
RoundDiv(num, den) ==
    LET q == num \div den
        rem == num % den
    IN  IF 2 * rem >= den THEN q + 1 ELSE q

\* the string formatCost returns: the em dash, or "$" and the cost with a number
\* of decimals (value is the cost scaled by 10^decimals and rounded)
Dash == [unknown |-> TRUE, decimals |-> 0, value |-> 0]

\* formatCost has not been applied yet
PendingFmt == [unknown |-> FALSE, decimals |-> 0, value |-> 0]

Money(decimals, value) == [unknown |-> FALSE, decimals |-> decimals, value |-> value]

\* formatCost showing the unknown marker for a cost of zero as well
formatCostZeroUnknown(run, model) ==
    IF model = NoModel \/ model.costPer1MTokens = NoPrice
    THEN Dash
    ELSE LET inputTokens == OrZero(run.total_input_tokens)
             outputTokens == OrZero(run.total_output_tokens)
             cost == inputTokens * model.costPer1MTokens.input
                       + outputTokens * model.costPer1MTokens.output
         IN  IF cost = 0
             THEN Dash
             ELSE IF cost < TokensPerPriceUnit \div 100
                  THEN Money(4, RoundDiv(cost, TokensPerPriceUnit \div 10000))
             ELSE IF cost < TokensPerPriceUnit
                  THEN Money(3, RoundDiv(cost, TokensPerPriceUnit \div 1000))
             ELSE Money(2, RoundDiv(cost, TokensPerPriceUnit \div 100))

\* formatCost(run, model)
formatCost(run, model) ==
    IF model = NoModel \/ model.costPer1MTokens = NoPrice
    THEN Dash
    ELSE LET inputTokens == OrZero(run.total_input_tokens)
             outputTokens == OrZero(run.total_output_tokens)
             cost == inputTokens * model.costPer1MTokens.input
                       + outputTokens * model.costPer1MTokens.output
         IN  IF inputTokens = 0 /\ outputTokens = 0
             THEN Dash
             ELSE IF cost < TokensPerPriceUnit \div 100
                  THEN Money(4, RoundDiv(cost, TokensPerPriceUnit \div 10000))
             ELSE IF cost < TokensPerPriceUnit
                  THEN Money(3, RoundDiv(cost, TokensPerPriceUnit \div 1000))
             ELSE Money(2, RoundDiv(cost, TokensPerPriceUnit \div 100))

\* Math.round(r.avg_score * 100), avg_score in thousandths
ScorePct(avgScore) == RoundDiv(avgScore, 10)

\* EfficiencyEntry cutting the quotient off after one decimal instead of rounding it
EfficiencyEntryTruncated(run, model) ==
    LET cost == computeRunCost(run, model)
    IN  IF cost = NoNum \/ cost = 0 \/ run.avg_score = NoNum
        THEN NoNum
        ELSE (ScorePct(run.avg_score) * 10 * TokensPerPriceUnit) \div cost

\* CostEfficiencyChart, the map callback for one run: NoNum for null, else
\* +(scorePct / cost).toFixed(1) in tenths
EfficiencyEntry(run, model) ==
    LET cost == computeRunCost(run, model)
    IN  IF cost = NoNum \/ cost = 0 \/ run.avg_score = NoNum
        THEN NoNum
        ELSE RoundDiv(ScorePct(run.avg_score) * 10 * TokensPerPriceUnit, cost)


----------------------------------------------------------------------------
(* Initial state: the module is loaded, nothing is mounted yet *)

\* the three accessor calls issued by the mount effects
Callers == { "getRuns", "getCatalog", "getExportedAt" }

NoMetricRun == [total_input_tokens |-> NoNum, total_output_tokens |-> NoNum,
                avg_score |-> NoNum]

MetricsIdle ==
    /\ mRun = NoMetricRun
    /\ mModel = NoModel
    /\ mCost = Pending
    /\ mFmt = PendingFmt
    /\ mEff = Pending

\* no text has been handed to getLabel or truncatePrompt
PendingText == << "pending" >>

TextIdle ==
    /\ tRun = [model |-> << >>]
    /\ tLabel = PendingText
    /\ tText = NoValue
    /\ tMax = 0
    /\ tPrompt = PendingText

\* no chart has computed its data
PendingData == << "pending" >>

ChartsIdle ==
    /\ cRuns = << >>
    /\ cRelease = PendingData
    /\ cEffData = PendingData

PageInit ==
    /\ mounted = FALSE
    /\ cached = NoDoc
    /\ pc = [c \in Callers |-> "idle"]
    /\ fetchCount = 0
    /\ cacheWrites = 0
    /\ runs = NoDoc
    /\ loading = TRUE
    /\ modelMap = NoDoc
    /\ publishedAt = NoNum
    /\ globalFilter = << >>
    /\ columnFilters = << >>
    /\ rowSelection = { }
    /\ sorting = << [id |-> "started_at", desc |-> TRUE] >>
    /\ pageIndex = 0
    /\ fileReqs = << >>
    /\ filesByRun = { }

Init ==
    /\ server \in DocNames
    /\ PageInit
    /\ MetricsIdle
    /\ TextIdle
    /\ ChartsIdle

----------------------------------------------------------------------------
(* ComparisonCharts: the per-file score effect, useEffect(..., [runs])      *)

\* loadData() that never looks at the cache
LoadDataUncached(c) == "fetch"

\* loadData(): with cached set it returns at once and the caller continues in a
\* microtask; otherwise it issues a fetch and the caller continues when the
\* response arrives
LoadDataKind(c) == IF c # NoDoc THEN "cached" ELSE "fetch"

\* Object.keys(allScores): the run ids that have per-file results
FileScoreKeysTable == [ d \in DocRefs |-> DOMAIN Doc(d).fileScores ]

\* a getFileScores() promise was answered from the cache: its then-callback is in
\* the microtask queue
MicrotaskPending == \E i \in 1..Len(fileReqs) : fileReqs[i].kind = "cached"

\* the event loop takes the next task (a user event, a network response) only
\* when the microtask queue is empty
TaskCanRun == ~MicrotaskPending

\* which memoized array chartRuns is
ChartRunsSource == IF Cardinality(selectedRuns) >= 2 THEN "selected" ELSE "filtered"

\* the runs prop is a new array after this step: ComparisonCharts mounts, chartRuns
\* switches between the two arrays, or the array it is was rebuilt (the selected
\* row model on a rowSelection change, the filtered row model on a filter change)
RunsPropChanged ==
    \/ ~ComparisonRendered
    \/ ChartRunsSource' # ChartRunsSource
    \/ ChartRunsSource = "selected" /\ rowSelection' # rowSelection
    \/ /\ ChartRunsSource = "filtered"
       /\ (columnFilters' # columnFilters \/ globalFilter' # globalFilter \/ runs' # runs)

\* the commit that follows a state change of DashboardPage: ComparisonCharts is
\* unmounted (its state and callbacks are dropped), or mounted with an empty Map,
\* and its effect runs when the runs prop changed: api.getFileScores() is called
\* with the current runs in the closure of the then-callback
ComparisonChartsCommit ==
    LET effect == ComparisonRendered' /\ RunsPropChanged
        kind == LoadDataKind(cached')
    IN  /\ filesByRun' = IF ComparisonRendered /\ ComparisonRendered' THEN filesByRun ELSE { }
        /\ fileReqs' =
              IF ~ComparisonRendered' THEN << >>
              ELSE IF effect THEN Append(fileReqs, [runs |-> chartRuns', kind |-> kind])
              ELSE fileReqs
        /\ fetchCount' = fetchCount + (IF effect /\ kind = "fetch" THEN 1 ELSE 0)

\* a getFileScores() promise settles. Answered from the cache, its then-callback
\* runs in queue order before any task; a fetch settles at any later time, with
\* the document (loadData assigns cached) or with an error (.catch(() => {})).
\* The callback keeps the entries of allScores whose run id is in runs.
FileScoresSettle(i, ok) ==
    /\ i \in 1..Len(fileReqs)
    /\ IF fileReqs[i].kind = "cached"
       THEN ok /\ \A j \in 1..(i - 1) : fileReqs[j].kind # "cached"
       ELSE TaskCanRun
    /\ LET allScores == IF fileReqs[i].kind = "cached" THEN cached ELSE server
           runIds == { RowsOf(runs)[r].id : r \in fileReqs[i].runs }
       IN  filesByRun' =
              IF ok
              THEN { runId \in FileScoreKeysTable[allScores] : runId \in runIds }
              ELSE filesByRun
    /\ fileReqs' = [ k \in 1..(Len(fileReqs) - 1) |->
                       IF k < i THEN fileReqs[k] ELSE fileReqs[k + 1] ]
    /\ IF fileReqs[i].kind = "fetch" /\ ok
       THEN cached' = server /\ cacheWrites' = cacheWrites + 1
       ELSE UNCHANGED << cached, cacheWrites >>
    /\ UNCHANGED << server, mounted, pc, fetchCount, pageVars, tableVars, pureVars >>

\* file ids of each fileScores entry
FileIdsTable ==
    [ d \in DocRefs |-> [ id \in DOMAIN Doc(d).fileScores |->
        { Doc(d).fileScores[id][k].file_id : k \in 1..Len(Doc(d).fileScores[id]) } ] ]

\* PerFileHeatmap: allFileIds, the file ids of every entry of filesByRun
AllFileIds == UNION { FileIdsTable[server][id] : id \in filesByRun }

\* {filesByRun.size > 0 && <PerFileHeatmap ... />}, which returns null when
\* allFileIds is empty
HeatmapShown ==
    /\ ComparisonRendered
    /\ Cardinality(filesByRun) > 0
    /\ AllFileIds # { }

\* PerFileHeatmap: runs.map((run) => <tr key={run.id}>), one row per run of the
\* runs prop
HeatmapRows == IF HeatmapShown THEN chartRuns ELSE { }

\* the cell of a run and a file: scoreMap.get(run.id)?.get(fid) != null, else "—"
HeatmapCellHasScore(r, fid) ==
    /\ RowsOf(runs)[r].id \in filesByRun
    /\ fid \in FileIdsTable[server][RowsOf(runs)[r].id]

----------------------------------------------------------------------------
(* Data access layer: loadData and the api accessors *)

\* App and DashboardPage mount: the effects call getRuns, getCatalog and
\* getExportedAt in the same tick; each loadData() finds cached null (no call has
\* run before) and issues its own fetch before suspending at the first await
Mount ==
    /\ TaskCanRun
    /\ ~mounted
    /\ cached = NoDoc
    /\ mounted' = TRUE
    /\ pc' = [c \in Callers |-> "fetching"]
    /\ fetchCount' = fetchCount + Cardinality(Callers)
    /\ UNCHANGED << server, cached, cacheWrites, pageVars, tableVars, fileVars, pureVars >>

\* await fetch("/data.json") resolves: the call goes on to res.json()
FetchResolve(c) ==
    /\ TaskCanRun
    /\ pc[c] = "fetching"
    /\ pc' = [pc EXCEPT ![c] = "parsing"]
    /\ UNCHANGED << server, mounted, cached, fetchCount, cacheWrites,
                    pageVars, tableVars, fileVars, pureVars >>

\* what the caller's promise chain does when its accessor rejects:
\* getRuns().then(setRuns).finally(() => setLoading(false)); the others .catch(() => {})
OnRejected(c) ==
    /\ loading' = IF c = "getRuns" THEN FALSE ELSE loading
    /\ UNCHANGED << runs, modelMap, publishedAt >>

\* the promise chain of getRuns without its finally callback
OnFulfilledNoFinally(c, doc) ==
    /\ runs' = IF c = "getRuns" THEN doc ELSE runs
    /\ loading' = loading
    /\ modelMap' = IF c = "getCatalog" THEN doc ELSE modelMap
    /\ publishedAt' = IF c = "getExportedAt" THEN Doc(doc).exportedAt ELSE publishedAt

\* what the caller's promise chain does when its accessor resolves with the document
OnFulfilled(c, doc) ==
    /\ runs' = IF c = "getRuns" THEN doc ELSE runs
    /\ loading' = IF c = "getRuns" THEN FALSE ELSE loading
    /\ modelMap' = IF c = "getCatalog" THEN doc ELSE modelMap
    /\ publishedAt' = IF c = "getExportedAt" THEN Doc(doc).exportedAt ELSE publishedAt

\* await fetch(...) rejects (network error): loadData throws, nothing is cached
FetchReject(c) ==
    /\ TaskCanRun
    /\ pc[c] = "fetching"
    /\ pc' = [pc EXCEPT ![c] = "rejected"]
    /\ OnRejected(c)
    /\ UNCHANGED << server, mounted, cached, fetchCount, cacheWrites,
                    tableVars, fileVars, pureVars >>

\* await res.json() rejects (the body is not JSON): loadData throws
JsonReject(c) ==
    /\ TaskCanRun
    /\ pc[c] = "parsing"
    /\ pc' = [pc EXCEPT ![c] = "rejected"]
    /\ OnRejected(c)
    /\ UNCHANGED << server, mounted, cached, fetchCount, cacheWrites,
                    tableVars, fileVars, pureVars >>

\* await res.json() resolves: cached = data; return cached; the accessor projects
\* its field and the caller's then-callback runs in the same turn
JsonResolve(c) ==
    /\ TaskCanRun
    /\ pc[c] = "parsing"
    /\ pc' = [pc EXCEPT ![c] = "resolved"]
    /\ cached' = server
    /\ cacheWrites' = cacheWrites + 1
    /\ OnFulfilled(c, server)
    /\ UNCHANGED << server, mounted, tableVars, pureVars >>
    /\ ComparisonChartsCommit

----------------------------------------------------------------------------
(* User interaction with the rendered grid *)

\* a column filter change that leaves the page index where it was
SetColumnFilterKeepPage(col, v) ==
    /\ TaskCanRun
    /\ GridRendered
    /\ ColumnFilterShown(col)
    /\ v \in ColumnFilterValues(col) \cup { << >> }
    /\ v # SelectShown(col)
    /\ columnFilters' = SetFilterValue(col, IF v = << >> THEN NoValue ELSE v)
    /\ UNCHANGED << server, mounted, cached, pc, cacheWrites, pageVars, globalFilter, rowSelection,
                    sorting, pageIndex, pureVars >>
    /\ ComparisonChartsCommit

\* <select onChange>: the user picks another option of a column's filter control
SetColumnFilter(col, v) ==
    /\ TaskCanRun
    /\ GridRendered
    /\ ColumnFilterShown(col)
    /\ v \in ColumnFilterValues(col) \cup { << >> }
    /\ v # SelectShown(col)
    /\ columnFilters' = SetFilterValue(col, IF v = << >> THEN NoValue ELSE v)
    /\ pageIndex' = 0
    /\ UNCHANGED << server, mounted, cached, pc, cacheWrites, pageVars, globalFilter, rowSelection,
                    sorting, pureVars >>
    /\ ComparisonChartsCommit

\* a global filter change that also drops the selected rows it hides
SetGlobalFilterPruning(text) ==
    /\ TaskCanRun
    /\ GridRendered
    /\ text # globalFilter
    /\ globalFilter' = text
    /\ pageIndex' = 0
    /\ rowSelection' =
          IF text = << >>
          THEN rowSelection
          ELSE rowSelection \cap GlobalFilterTable[runs][text]
    /\ UNCHANGED << server, mounted, cached, pc, cacheWrites, pageVars, columnFilters, sorting, pureVars >>
    /\ ComparisonChartsCommit

\* <input onChange>: setGlobalFilter(e.target.value)
SetGlobalFilter(text) ==
    /\ TaskCanRun
    /\ GridRendered
    /\ text # globalFilter
    /\ globalFilter' = text
    /\ pageIndex' = 0
    /\ UNCHANGED << server, mounted, cached, pc, cacheWrites, pageVars, columnFilters, rowSelection,
                    sorting, pureVars >>
    /\ ComparisonChartsCommit

\* {columnFilters.length > 0 && <button>Clear filters (n)</button>}, in the toolbar
\* of the rendered grid
ClearFiltersOffered == GridRendered /\ Len(columnFilters) > 0

\* {selectedRuns.length > 0 && <button>Clear (n)</button>}, in the toolbar of the
\* rendered grid
ClearSelectionOffered == GridRendered /\ Cardinality(selectedRuns) > 0

\* a "Clear filters" that also empties the global filter
ClearFiltersAndGlobal ==
    /\ TaskCanRun
    /\ ClearFiltersOffered
    /\ columnFilters' = << >>
    /\ globalFilter' = << >>
    /\ pageIndex' = 0
    /\ UNCHANGED << server, mounted, cached, pc, cacheWrites, pageVars, rowSelection,
                    sorting, pureVars >>
    /\ ComparisonChartsCommit

\* "Clear filters (n)": setColumnFilters([])
ClearFilters ==
    /\ TaskCanRun
    /\ ClearFiltersOffered
    /\ columnFilters' = << >>
    /\ pageIndex' = 0
    /\ UNCHANGED << server, mounted, cached, pc, cacheWrites, pageVars, globalFilter, rowSelection,
                    sorting, pureVars >>
    /\ ComparisonChartsCommit

\* header click: column.getToggleSortingHandler()
ToggleSorting(col) ==
    /\ TaskCanRun
    /\ GridRendered
    /\ sorting' = ToggleSortingResult(col)
    /\ pageIndex' = 0
    /\ UNCHANGED << server, mounted, apiVars, pageVars, globalFilter, columnFilters,
                    rowSelection, fileVars, pureVars >>

\* row checkbox: row.getToggleSelectedHandler(), for a row of the current page
ToggleRow(r) ==
    /\ TaskCanRun
    /\ GridRendered
    /\ RowOnPage(r)
    /\ rowSelection' = ToggleSelected(r, r \notin rowSelection)
    /\ UNCHANGED << server, mounted, cached, pc, cacheWrites, pageVars, globalFilter, columnFilters,
                    sorting, pageIndex, pureVars >>
    /\ ComparisonChartsCommit

\* header checkbox: table.getToggleAllRowsSelectedHandler(), e.target.checked being
\* the negation of checked={table.getIsAllRowsSelected()}
ToggleAllRows ==
    /\ TaskCanRun
    /\ GridRendered
    /\ rowSelection' = ToggleAllRowsSelected(~GetIsAllRowsSelected)
    /\ UNCHANGED << server, mounted, cached, pc, cacheWrites, pageVars, globalFilter, columnFilters,
                    sorting, pageIndex, pureVars >>
    /\ ComparisonChartsCommit

\* "Clear (n)": setRowSelection({})
ClearSelection ==
    /\ TaskCanRun
    /\ ClearSelectionOffered
    /\ rowSelection' = { }
    /\ UNCHANGED << server, mounted, cached, pc, cacheWrites, pageVars, globalFilter, columnFilters,
                    sorting, pageIndex, pureVars >>
    /\ ComparisonChartsCommit

\* "Next": table.nextPage(), enabled by table.getCanNextPage()
NextPage ==
    /\ TaskCanRun
    /\ GridRendered
    /\ PageCount > 1
    /\ pageIndex < PageCount - 1
    /\ pageIndex' = pageIndex + 1
    /\ UNCHANGED << server, mounted, apiVars, pageVars, globalFilter, columnFilters,
                    rowSelection, sorting, fileVars, pureVars >>

\* "Prev": table.previousPage(), enabled by table.getCanPreviousPage()
PreviousPage ==
    /\ TaskCanRun
    /\ GridRendered
    /\ PageCount > 1
    /\ pageIndex > 0
    /\ pageIndex' = pageIndex - 1
    /\ UNCHANGED << server, mounted, apiVars, pageVars, globalFilter, columnFilters,
                    rowSelection, sorting, fileVars, pureVars >>

Next ==
    \/ Mount
    \/ \E c \in Callers : FetchResolve(c)
    \/ \E c \in Callers : FetchReject(c)
    \/ \E c \in Callers : JsonResolve(c)
    \/ \E c \in Callers : JsonReject(c)
    \/ \E col \in FilterableCols : \E v \in ColumnFilterValues(col) \cup { << >> } :
          SetColumnFilter(col, v)
    \/ \E text \in GlobalInputs : SetGlobalFilter(text)
    \/ ClearFilters
    \/ \E col \in SortInputs : ToggleSorting(col)
    \/ \E r \in 1..MaxClickRow : ToggleRow(r)
    \/ ToggleAllRows
    \/ ClearSelection
    \/ NextPage
    \/ PreviousPage
    \/ \E i \in 1..Len(fileReqs) : \E ok \in BOOLEAN : FileScoresSettle(i, ok)

Spec == Init /\ [][Next]_vars

\* a promise continuation of a request answered from the cache: a microtask, which
\* the event loop runs to completion before it takes the next event
MicrotaskStep ==
    \E i \in 1..Len(fileReqs) : fileReqs[i].kind = "cached" /\ FileScoresSettle(i, TRUE)

\* the dashboard under the event loop's scheduling: a queued microtask always runs
SpecEventLoop == Spec /\ WF_vars(MicrotaskStep)


----------------------------------------------------------------------------
(* The derived metrics as pure functions: the inputs are drawn in the       *)
(* initial state and each function is applied once.                         *)

TokenInputs == { NoNum, 0, 1234, 500000, 2000000 }
ScoreInputs == { NoNum, 0, 805, 950 }

MetricRuns ==
    [ total_input_tokens : TokenInputs, total_output_tokens : TokenInputs,
      avg_score : ScoreInputs ]

MetricModels ==
    { NoModel,
      CatalogModel(<< "k", "q" >>, NoPrice, 20240601),
      CatalogModel(<< "k" >>, [input |-> 3, output |-> 15], 20240101),
      CatalogModel(<< "x" >>, [input |-> 0, output |-> 0], NoNum) }

InitMetrics ==
    /\ server = "empty"
    /\ PageInit
    /\ mRun \in MetricRuns
    /\ mModel \in MetricModels
    /\ mCost = Pending
    /\ mFmt = PendingFmt
    /\ mEff = Pending
    /\ TextIdle
    /\ ChartsIdle

\* const cost = computeRunCost(r, model)
ComputeCost ==
    /\ mCost = Pending
    /\ mCost' = computeRunCost(mRun, mModel)
    /\ UNCHANGED << dashVars, textVars, chartVars, mRun, mModel, mFmt, mEff >>

\* the cost column: accessorFn: (row) => formatCost(row, modelMap.get(row.model))
FormatCostCell ==
    /\ mFmt = PendingFmt
    /\ mFmt' = formatCost(mRun, mModel)
    /\ UNCHANGED << dashVars, textVars, chartVars, mRun, mModel, mCost, mEff >>

\* CostEfficiencyChart: the entry of one run
ComputeEfficiency ==
    /\ mEff = Pending
    /\ mEff' = EfficiencyEntry(mRun, mModel)
    /\ UNCHANGED << dashVars, textVars, chartVars, mRun, mModel, mCost, mFmt >>

NextMetrics ==
    \/ ComputeCost
    \/ FormatCostCell
    \/ ComputeEfficiency

SpecMetrics == InitMetrics /\ [][NextMetrics]_vars


----------------------------------------------------------------------------
(* Text helpers: getLabel and truncatePrompt *)

\* the "..." both helpers append
Ellipsis == << ".", ".", "." >>

\* "—", the em dash, one character
EmDashText == << "_" >>

\* s.slice(a, b) for 0 <= a <= b
Slice(s, a, b) == SubSeq(s, a + 1, IF b < Len(s) THEN b ELSE Len(s))

\* s.split("/").pop(): the part of s after its last "/"
SplitPop(s) ==
    LET slashes == { i \in 1..Len(s) : s[i] = "/" }
        last == CHOOSE i \in slashes : \A j \in slashes : j <= i
    IN  SubSeq(s, last + 1, Len(s))

\* s.trimEnd()
RECURSIVE TrimEnd(_)
TrimEnd(s) ==
    IF Len(s) > 0 /\ s[Len(s)] = " "
    THEN TrimEnd(SubSeq(s, 1, Len(s) - 1))
    ELSE s

\* getLabel(run)
getLabel(run) ==
    LET model == IF Includes(run.model, << "/" >>) THEN SplitPop(run.model) ELSE run.model
    IN  IF Len(model) > LabelLimit
        THEN Slice(model, 0, LabelKeep) \o Ellipsis
        ELSE model

\* truncatePrompt(text, max)
truncatePrompt(text, max) ==
    IF text = NoValue \/ text = << >>
    THEN EmDashText
    ELSE IF Len(text) <= max
         THEN text
         ELSE TrimEnd(Slice(text, 0, max)) \o Ellipsis

(* The text helpers as pure functions: the inputs are drawn in the initial  *)
(* state and each function is applied once.                                 *)

\* a model name of n characters without "/"
LabelBody(n) == [ i \in 1..n |-> IF i % 2 = 1 THEN "m" ELSE "n" ]

LabelPrefixes == { << >>, << "p", "/" >>, << "a", "/", "b", "/" >> }

LabelInputs ==
    { [model |-> p \o LabelBody(n)] :
        p \in LabelPrefixes, n \in { 1 } \cup (LabelKeep..(LabelLimit + MaxLabelOver)) }

TextChars == { "a", " " }

TextInputs == { NoValue } \cup UNION { [1..n -> TextChars] : n \in 0..MaxTextLen }

InitText ==
    /\ server = "empty"
    /\ PageInit
    /\ MetricsIdle
    /\ ChartsIdle
    /\ tRun \in LabelInputs
    /\ tLabel = PendingText
    /\ tText \in TextInputs
    /\ tMax \in 1..MaxPromptMax
    /\ tPrompt = PendingText

\* a chart axis or heatmap row calls getLabel(run)
GetLabel ==
    /\ tLabel = PendingText
    /\ tLabel' = getLabel(tRun)
    /\ UNCHANGED << dashVars, metricVars, chartVars, tRun, tText, tMax, tPrompt >>

\* the prompt_preview cell calls truncatePrompt(getValue(), max)
TruncatePrompt ==
    /\ tPrompt = PendingText
    /\ tPrompt' = truncatePrompt(tText, tMax)
    /\ UNCHANGED << dashVars, metricVars, chartVars, tRun, tLabel, tText, tMax >>

NextText ==
    \/ GetLabel
    \/ TruncatePrompt

SpecText == InitText /\ [][NextText]_vars

----------------------------------------------------------------------------
(* Chart data: PerformanceByReleaseDateChart and CostEfficiencyChart *)

\* a chart component returned null
NoChart == << "null" >>

\* modelMap.get(r.model), the map holding every model of the catalog
ChartModelMapGet(id) ==
    IF id \in DOMAIN CatalogIndex THEN CatalogIndex[id] ELSE NoModel

\* bestByModel after the loop has handled rs[1..i]: the entries of the Map in
\* insertion order. r.avg_score (a fraction, here in thousandths) is compared with
\* existing.score (the percentage stored by an earlier iteration).
RECURSIVE BestByModel(_, _)
BestByModel(rs, i) ==
    IF i = 0
    THEN << >>
    ELSE LET prev == BestByModel(rs, i - 1)
             r == rs[i]
             model == ChartModelMapGet(r.model)
             at == { k \in 1..Len(prev) : prev[k].key = r.model }
             entry == [ key |-> r.model,
                        score |-> ScorePct(r.avg_score),
                        releaseDate |-> model.releaseDate ]
         IN  IF model = NoModel \/ model.releaseDate = NoNum \/ r.avg_score = NoNum
             THEN prev
             ELSE IF at = { }
                  THEN Append(prev, entry)
                  ELSE LET k == CHOOSE k \in at : TRUE
                       IN  IF r.avg_score > 1000 * prev[k].score
                           THEN [prev EXCEPT ![k] = entry]
                           ELSE prev

\* a.releaseDate.localeCompare(b.releaseDate) < 0
ReleasedBefore(a, b) == a.releaseDate < b.releaseDate

\* data.sort((a, b) => a.releaseDate.localeCompare(b.releaseDate)): Array.prototype.sort
\* is stable, entries that compare equal keep their order
SortByReleaseDate(seq) ==
    LET n == Len(seq)
        pos(i) == 1 + Cardinality({ j \in 1..n :
                          \/ ReleasedBefore(seq[j], seq[i])
                          \/ (~ReleasedBefore(seq[i], seq[j]) /\ j < i) })
    IN  [ p \in 1..n |-> seq[CHOOSE i \in 1..n : pos(i) = p] ]

\* PerformanceByReleaseDateChart: data, or null when data.length < 2
ReleaseDateChartData(rs) ==
    LET data == SortByReleaseDate(BestByModel(rs, Len(rs)))
    IN  IF Len(data) < 2 THEN NoChart ELSE data

\* b.efficiency - a.efficiency < 0
MoreEfficient(a, b) == a.efficiency > b.efficiency

\* data.sort((a, b) => b.efficiency - a.efficiency), stable
SortByEfficiency(seq) ==
    LET n == Len(seq)
        pos(i) == 1 + Cardinality({ j \in 1..n :
                          \/ MoreEfficient(seq[j], seq[i])
                          \/ (~MoreEfficient(seq[i], seq[j]) /\ j < i) })
    IN  [ p \in 1..n |-> seq[CHOOSE i \in 1..n : pos(i) = p] ]

\* CostEfficiencyChart: data, or null when data.length < 2
CostEfficiencyChartData(rs) ==
    LET entries == [ i \in 1..Len(rs) |->
                       [ run |-> i,
                         efficiency |-> EfficiencyEntry(rs[i], ChartModelMapGet(rs[i].model)) ] ]
        data == SelectSeq(entries, LAMBDA e : e.efficiency # NoNum)
    IN  IF Len(data) < 2 THEN NoChart ELSE SortByEfficiency(data)

(* The charts as pure functions of the runs prop: the rows are drawn in the *)
(* initial state and each chart computes its data once.                     *)

ChartScores == { NoNum, 500, 900 }
ChartTokens == { 0, 2000000, 2001000 }

\* rows of the priced model with every token count, rows of the unpriced and of
\* the uncatalogued model with one
ChartRunInputs ==
    [ model : { << "k" >> }, avg_score : ChartScores,
      total_input_tokens : ChartTokens, total_output_tokens : { 0 } ]
    \cup
    [ model : { << "k", "q" >>, << "x" >> }, avg_score : ChartScores,
      total_input_tokens : { 2000000 }, total_output_tokens : { 0 } ]

InitCharts ==
    /\ server = "empty"
    /\ PageInit
    /\ MetricsIdle
    /\ TextIdle
    /\ cRuns \in UNION { [1..n -> ChartRunInputs] : n \in 1..MaxChartRuns }
    /\ cRelease = PendingData
    /\ cEffData = PendingData

\* <PerformanceByReleaseDateChart runs={runs} modelMap={modelMap} />
RenderReleaseDateChart ==
    /\ cRelease = PendingData
    /\ cRelease' = ReleaseDateChartData(cRuns)
    /\ UNCHANGED << dashVars, metricVars, textVars, cRuns, cEffData >>

\* <CostEfficiencyChart runs={runs} modelMap={modelMap} />
RenderCostEfficiencyChart ==
    /\ cEffData = PendingData
    /\ cEffData' = CostEfficiencyChartData(cRuns)
    /\ UNCHANGED << dashVars, metricVars, textVars, cRuns, cRelease >>

NextCharts ==
    \/ RenderReleaseDateChart
    \/ RenderCostEfficiencyChart

SpecCharts == InitCharts /\ [][NextCharts]_vars

----------------------------------------------------------------------------
(* Properties of the dashboard (checked under Spec) *)

\* the rows that satisfy every active column filter, leaving out column `skip`
RowsPassingColumns(skip) ==
    { r \in CoreRows :
        \A i \in 1..Len(columnFilters) :
            columnFilters[i].id # skip =>
                r \in ColumnFilterTable[runs][columnFilters[i].id][columnFilters[i].value] }

\* the rows that contain the global filter text in some searchable column
RowsPassingGlobal ==
    { r \in CoreRows :
        globalFilter # << >> => r \in GlobalFilterTable[runs][globalFilter] }

\* C1: in every reachable state the rows fed to the comparison view are the
\* selected runs when at least 2 runs are selected (selected rows hidden by the
\* filter included), and the currently filtered runs otherwise.
C1_ResolverFeedsSelectedOrFiltered ==
    chartRuns = IF Cardinality(rowSelection) >= 2 THEN rowSelection ELSE FilteredRows

\* C1 witness: exactly 2 rows are selected, one of them hidden by the filter, and
\* the comparison view is rendered over exactly those 2 rows
C1_Witness ==
    /\ ComparisonRendered
    /\ Cardinality(rowSelection) = 2
    /\ \E r \in rowSelection : r \notin FilteredRows
    /\ \E r \in rowSelection : r \in FilteredRows
    /\ chartRuns = rowSelection

\* a step of one of the three selection controls
SelectionStep ==
    \/ \E r \in 1..MaxClickRow : ToggleRow(r)
    \/ ToggleAllRows
    \/ ClearSelection

\* C2: the row selection is changed only by per-row toggles, the select-all toggle
\* and the clear-selection action; a change of column filter, global filter, sort
\* or page leaves the set of selected runs unchanged.
C2_SelectionChangedOnlyBySelectionControls ==
    [][ /\ rowSelection' # rowSelection => SelectionStep
        /\ ( \/ columnFilters' # columnFilters
             \/ globalFilter' # globalFilter
             \/ sorting' # sorting
             \/ pageIndex' # pageIndex )
           => (rowSelection' = rowSelection /\ selectedRuns' = selectedRuns) ]_vars

\* C2 witness: a selected row is hidden by the filters that are now active, and is
\* still selected
C2_Witness ==
    /\ GridRendered
    /\ Len(columnFilters) > 0
    /\ globalFilter # << >>
    /\ \E r \in selectedRuns : r \notin FilteredRows /\ r \in RowsPassingColumns("__none__")
    /\ \E r \in selectedRuns : r \notin RowsPassingColumns("__none__")

\* C3 as stated: the filtered row set is exactly the set of loaded runs that
\* satisfy every active column filter predicate.
C3_FilteredIsColumnFiltersOnly ==
    FilteredRows = RowsPassingColumns("__none__")

\* C3: the filtered row set is exactly the set of loaded runs that satisfy every
\* active column filter predicate and, when the global filter text is non-empty,
\* contain that text in at least one searchable column.
C3_FilteredIsColumnAndGlobalFilters ==
    FilteredRows = RowsPassingColumns("__none__") \cap RowsPassingGlobal

\* C3 witness: two column filters and the global filter are active, each of them
\* excludes some row by itself, the column filters exclude a row the global filter
\* lets through, and a row remains
C3_Witness ==
    /\ Len(columnFilters) >= 2
    /\ globalFilter # << >>
    /\ FilteredRows # { }
    /\ RowsPassingGlobal # CoreRows
    /\ RowsPassingGlobal \ RowsPassingColumns("__none__") # { }
    /\ \A i \in 1..Len(columnFilters) :
          ColumnFilterTable[runs][columnFilters[i].id][columnFilters[i].value] # CoreRows

\* C4 as stated: the fetch of the dataset is issued at most once and the
\* module-level cache is written at most once.
C4_FetchedAndCachedAtMostOnce ==
    fetchCount <= 1 /\ cacheWrites <= 1

\* C7: the comparison view is rendered iff the resolved row set has at least 2
\* rows; the summary statistics are never evaluated on an empty row set.
C7_ComparisonIffAtLeastTwoRows ==
    /\ ComparisonRendered <=> Cardinality(chartRuns) >= 2
    /\ SummaryCardsEvaluated => SummaryCardsRuns # { }

\* C7 witness: the grid is rendered, the filters leave no row and fewer than 2
\* rows are selected: the resolved set is empty and the comparison view is absent
C7_Witness ==
    /\ GridRendered
    /\ chartRuns = { }
    /\ ~ComparisonRendered
    /\ ~SummaryCardsEvaluated

\* C8: the select-all toggle acts on exactly the rows matching the filters: when
\* not all filtered rows are selected it adds every filtered row, when all are
\* selected it removes every filtered row, and the selection status of the rows
\* that do not match the filters is left unchanged.
C8_SelectAllActsOnFilteredRows ==
    [][ ToggleAllRows =>
          /\ ~(FilteredRows \subseteq rowSelection) => FilteredRows \subseteq rowSelection'
          /\ (FilteredRows \subseteq rowSelection) => FilteredRows \cap rowSelection' = { }
          /\ rowSelection' \ FilteredRows = rowSelection \ FilteredRows ]_vars

\* C8 witness: with a filter hiding some rows, every matching row is selected (one
\* of them a row that has no reachable checkbox of its own) and a hidden row is not
C8_Witness ==
    /\ GridRendered
    /\ FilteredRows # CoreRows
    /\ FilteredRows \subseteq rowSelection
    /\ \E r \in FilteredRows : r > MaxClickRow
    /\ \E r \in CoreRows \ FilteredRows : r \notin rowSelection

\* C9: for every filterable column, the options of its filter control are the
\* distinct stringified values of the column over the rows that satisfy every
\* active filter other than the column's own.
C9_FacetOptionsExcludeOwnFilter ==
    \A col \in FilterableCols :
        ColumnFilterValues(col) =
            { Stringify(RowsOf(runs)[r][col]) :
                r \in RowsPassingColumns(col) \cap RowsPassingGlobal }

\* C9 witness: a column whose own filter is active still offers more than one
\* option, a value its own filter excludes among them, while another filter narrows
\* the options
C9_Witness ==
    \E col \in FilterableCols :
        /\ col \in ColumnFilterIds
        /\ Len(columnFilters) + (IF globalFilter = << >> THEN 0 ELSE 1) >= 2
        /\ Cardinality(ColumnFilterValues(col)) > 1
        /\ ColumnFilterValues(col) # DistinctValues(col, FilteredRows)
        /\ ColumnFilterValues(col) # DistinctValues(col, CoreRows)

\* C10 as stated: when the fetch of a call fails, the call rejects, no further
\* fetch is issued, and the dataset cache stays unset.
C10_FailedFetchLeavesCacheUnset ==
    [][ \A c \in Callers :
          (pc[c] \in { "fetching", "parsing" } /\ pc'[c] = "rejected")
              => (fetchCount' = fetchCount /\ cached' = NoDoc) ]_vars

\* C11: whenever the dataset has loaded with 0 runs, the page shows the "No
\* benchmark runs found" message, and neither the grid nor the comparison view is
\* rendered.
C11_EmptyDatasetShowsNoRunsMessage ==
    (pc["getRuns"] = "resolved" /\ Len(RowsOf(runs)) = 0) =>
        /\ PageView = "empty"
        /\ ~GridRendered
        /\ ~ComparisonRendered

\* C11 witness: the runs call has resolved with a document of 0 runs and the
\* message is shown
C11_Witness ==
    /\ pc["getRuns"] = "resolved"
    /\ runs = "empty"
    /\ PageView = "empty"

\* C12: once the runs fetch has failed, the page is in its loading or its no-rows
\* state and in no other, the grid is not rendered, the runs call stays failed and
\* no further fetch is issued.
C12_FailedRunsFetchNeverShowsGrid ==
    [][ pc'["getRuns"] = "rejected" =>
          /\ PageView' \in { "loading", "empty" }
          /\ ~GridRendered'
          /\ pc["getRuns"] = "rejected" =>
                (fetchCount' = fetchCount /\ runs' = runs) ]_vars

\* C12 witness: the fetch of the runs call has failed while another call's fetch
\* succeeded, and the page shows the no-rows message
C12_Witness ==
    /\ pc["getRuns"] = "rejected"
    /\ cached # NoDoc
    /\ PageView = "empty"

\* the run ids of the current resolved rows that have per-file results
FreshFilesByRun ==
    { id \in FileScoreKeysTable[cached] : id \in { RowsOf(runs)[r].id : r \in chartRuns } }

\* every response has been applied and the per-file score map is not the one
\* filtered by the current resolved rows
StaleFileScores ==
    /\ ComparisonRendered
    /\ fileReqs = << >>
    /\ filesByRun # FreshFilesByRun

C18_HeatmapRowsOnlyForRunsWithFiles ==
    /\ \A r \in HeatmapRows : RowsOf(runs)[r].id \in FileScoreKeysTable[server]
    /\ (ComparisonRendered /\ fileReqs = << >> /\ FreshFilesByRun = { }) => ~HeatmapShown

\* C19: the page index is never negative and never beyond the last page of the
\* filtered rows, and it is 0 when no row passes the filters.
C19_PageIndexInRange ==
    /\ pageIndex >= 0
    /\ PageCount > 0 => pageIndex <= PageCount - 1
    /\ FilteredRows = { } => pageIndex = 0

\* C19 witness: a dataset of more than one page on which a column filter leaves at
\* most one page of rows, the grid showing page 0
C19_Witness ==
    /\ GridRendered
    /\ Cardinality(CoreRows) > PageSize
    /\ Len(columnFilters) > 0
    /\ Cardinality(FilteredRows) <= PageSize
    /\ pageIndex = 0

\* C20: "Clear filters" is offered exactly when a column filter is active, and it
\* empties the column filters and leaves the global filter, the sort and the
\* selection as they were; "Clear" is offered exactly when a row is selected, and
\* it empties the selection and leaves the column filters, the global filter and
\* the sort as they were.
C20_ClearResetsOwnSliceOnly ==
    [][ /\ ClearFilters =>
              /\ columnFilters' = << >>
              /\ UNCHANGED << globalFilter, sorting, rowSelection >>
        /\ ClearSelection =>
              /\ rowSelection' = { }
              /\ UNCHANGED << columnFilters, globalFilter, sorting >>
        /\ ClearFiltersOffered' <=> Len(columnFilters') > 0
        /\ ClearSelectionOffered' <=> rowSelection' # { } ]_vars

\* C20 witness: no column filter is active and "Clear filters" is not offered,
\* while a global filter, a selection (with "Clear" offered) and a sort other than
\* the initial one are in place
C20_Witness ==
    /\ GridRendered
    /\ columnFilters = << >>
    /\ ~ClearFiltersOffered
    /\ globalFilter # << >>
    /\ rowSelection # { }
    /\ ClearSelectionOffered
    /\ sorting # << [id |-> "started_at", desc |-> TRUE] >>

\* the rows whose stringified value of a column equals v and that satisfy every
\* active filter other than the column's own
RowsWithOptionValue(col, v) ==
    { r \in RowsPassingColumns(col) \cap RowsPassingGlobal :
        Stringify(RowsOf(runs)[r][col]) = v }

\* C22 as stated: for every filterable column and every value offered in its filter
\* control, the empty string of rows without a value included, choosing the value
\* makes it the column's active filter and leaves as filtered rows exactly the rows
\* whose stringified value of the column equals it and that satisfy every other
\* active filter.
C22_OptionFiltersByEquality ==
    [][ \A col \in FilterableCols : \A v \in ColumnFilterValues(col) :
            SetColumnFilter(col, v) =>
                /\ col \in ColumnFilterIds'
                /\ GetFilterValue(col)' = v
                /\ FilteredRows' = RowsWithOptionValue(col, v) ]_vars

\* C22 restricted to the options that are not the empty string
C22_NonEmptyOptionFiltersByEquality ==
    [][ \A col \in FilterableCols : \A v \in ColumnFilterValues(col) \ { << >> } :
            SetColumnFilter(col, v) =>
                /\ col \in ColumnFilterIds'
                /\ GetFilterValue(col)' = v
                /\ FilteredRows' = RowsWithOptionValue(col, v) ]_vars

\* C22 restricted to the option carrying the empty string
C22_EmptyOptionFiltersByEquality ==
    [][ \A col \in FilterableCols :
            (<< >> \in ColumnFilterValues(col) /\ SetColumnFilter(col, << >>)) =>
                /\ col \in ColumnFilterIds'
                /\ FilteredRows' = RowsWithOptionValue(col, << >>) ]_vars

----------------------------------------------------------------------------
(* Properties of the derived metrics (checked under SpecMetrics) *)

\* the run's token counts, an absent count read as 0
InputTokens == OrZero(mRun.total_input_tokens)
OutputTokens == OrZero(mRun.total_output_tokens)

\* the joined model exists, has a pricing entry, and some token count is nonzero
CostIsDefined ==
    /\ mModel # NoModel
    /\ mModel.costPer1MTokens # NoPrice
    /\ (InputTokens # 0 \/ OutputTokens # 0)

\* (input / 1e6) * price_in + (output / 1e6) * price_out, times 1e6
CostValue ==
    InputTokens * mModel.costPer1MTokens.input
        + OutputTokens * mModel.costPer1MTokens.output

\* C5: the cost of a run is defined iff the joined model exists, has a pricing
\* entry, and at least one token count is nonzero; when defined it equals
\* (input/1e6)*price_in + (output/1e6)*price_out; when not defined the chart cost is
\* null and the table cell is the unknown marker, never a zero amount.
C5_CostDefinedIffPricedAndTokens ==
    /\ mCost # Pending =>
          /\ (mCost # NoNum) <=> CostIsDefined
          /\ CostIsDefined => mCost = CostValue
    /\ (mFmt # PendingFmt /\ ~CostIsDefined) => mFmt = Dash

\* C5 witness: a cost computed for a priced model from a single nonzero token count,
\* next to a formatted cell
C5_Witness ==
    /\ mCost # Pending
    /\ mCost > 0
    /\ InputTokens = 0
    /\ OutputTokens > 0
    /\ mFmt # PendingFmt

\* the numerator of one unit of the last decimal of a formatted cost
LastDecimalUnit(decimals) ==
    IF decimals = 4 THEN TokensPerPriceUnit \div 10000
    ELSE IF decimals = 3 THEN TokensPerPriceUnit \div 1000
    ELSE TokensPerPriceUnit \div 100

\* C21: for every run and every joined model, absent or not, the cost column shows
\* the unknown marker exactly when computeRunCost returns null; when both are
\* defined the chart cost is (input/1e6)*price_in + (output/1e6)*price_out and the
\* cell is that same value written with 4, 3 or 2 decimals (below $0.01, below $1,
\* otherwise), at most half a unit of the last decimal away from it.
C21_CostColumnAgreesWithChartCost ==
    (mCost # Pending /\ mFmt # PendingFmt) =>
        /\ mFmt.unknown <=> mCost = NoNum
        /\ mCost # NoNum =>
              /\ mCost = CostValue
              /\ mFmt.decimals =
                    IF mCost < TokensPerPriceUnit \div 100 THEN 4
                    ELSE IF mCost < TokensPerPriceUnit THEN 3 ELSE 2
              /\ 2 * (mFmt.value * LastDecimalUnit(mFmt.decimals) - mCost)
                    <= LastDecimalUnit(mFmt.decimals)
              /\ 2 * (mCost - mFmt.value * LastDecimalUnit(mFmt.decimals))
                    < LastDecimalUnit(mFmt.decimals)

\* C21 witness: both computations applied to a run of a priced model whose cost is
\* below one dollar and is rounded in the cell
C21_Witness ==
    /\ mCost # Pending
    /\ mFmt # PendingFmt
    /\ mCost # NoNum
    /\ mFmt.decimals = 3
    /\ mFmt.value * LastDecimalUnit(3) # mCost

\* C6: a run has an efficiency value only when its cost is defined and strictly
\* positive and its average score is defined; the value is then score_pct / cost
\* rounded to one decimal (ties up), score_pct being avg_score * 100 rounded to an
\* integer; in every other case the run has no efficiency value.
C6_EfficiencyOnlyForPositiveCost ==
    mEff # Pending =>
        LET has == CostIsDefined /\ CostValue > 0 /\ mRun.avg_score # NoNum
        IN  /\ (mEff # NoNum) <=> has
            /\ has =>
                  \E pct \in 0..100 :
                      /\ 10 * pct - 5 <= mRun.avg_score
                      /\ mRun.avg_score < 10 * pct + 5
                      /\ 2 * (mEff * CostValue - pct * 10 * TokensPerPriceUnit) <= CostValue
                      /\ 2 * (mEff * CostValue - pct * 10 * TokensPerPriceUnit) > 0 - CostValue

\* C6 witness: an efficiency value that is not a whole number of tenths before
\* rounding, and is rounded up
C6_Witness ==
    /\ mEff # Pending
    /\ mEff # NoNum
    /\ mEff * CostValue > ScorePct(mRun.avg_score) * 10 * TokensPerPriceUnit


----------------------------------------------------------------------------
(* Properties of the text helpers (checked under SpecText) *)

\* s ends with the three dots
EndsWithEllipsis(s) ==
    Len(s) >= 3 /\ SubSeq(s, Len(s) - 2, Len(s)) = << ".", ".", "." >>

\* the model name of tRun without its provider/ prefix
StrippedModel ==
    LET m == tRun.model
    IN  IF \E i \in 1..Len(m) : m[i] = "/"
        THEN LET k == CHOOSE i \in 1..Len(m) :
                          m[i] = "/" /\ \A j \in (i + 1)..Len(m) : m[j] # "/"
             IN  [ i \in 1..(Len(m) - k) |-> m[k + i] ]
        ELSE m

\* C13 as stated: the label is the stripped model name when that has at most 28
\* characters, otherwise a truncation ending in an ellipsis of 28 characters in
\* total; the label never exceeds 28 characters.
C13_LabelWithinLimit ==
    tLabel # PendingText =>
        /\ Len(StrippedModel) <= LabelLimit => tLabel = StrippedModel
        /\ Len(StrippedModel) > LabelLimit =>
              (EndsWithEllipsis(tLabel) /\ Len(tLabel) = LabelLimit)
        /\ Len(tLabel) <= LabelLimit

\* C14 as stated, for a non-empty text: the prompt preview is the text unchanged
\* when its length is at most max, otherwise it ends with the ellipsis and has at
\* most max characters, ellipsis included.
C14_PromptPreviewWithinMax ==
    (tPrompt # PendingText /\ tText # NoValue /\ tText # << >>) =>
        /\ Len(tText) <= tMax => tPrompt = tText
        /\ Len(tText) > tMax => (EndsWithEllipsis(tPrompt) /\ Len(tPrompt) <= tMax)


----------------------------------------------------------------------------
(* Properties of the charts (checked under SpecCharts) *)

\* the catalog entry of the i-th row of the runs prop
ChartModelOf(i) ==
    IF cRuns[i].model \in { CatalogModels[k].id : k \in 1..Len(CatalogModels) }
    THEN CHOOSE m \in { CatalogModels[k] : k \in 1..Len(CatalogModels) } : m.id = cRuns[i].model
    ELSE NoModel

\* rows whose model has a release date and whose avg_score is defined
DatedRows ==
    { i \in 1..Len(cRuns) :
        /\ ChartModelOf(i) # NoModel
        /\ ChartModelOf(i).releaseDate # NoNum
        /\ cRuns[i].avg_score # NoNum }

\* the highest avg_score of the dated rows of one model id
BestScoreOf(id) ==
    CHOOSE a \in { cRuns[i].avg_score : i \in { j \in DatedRows : cRuns[j].model = id } } :
        \A i \in DatedRows : cRuns[i].model = id => cRuns[i].avg_score <= a

\* C15 as stated: a rendered release-date chart has exactly one point per distinct
\* model id among the rows whose model has a release date and whose avg_score is
\* defined, and that point carries the score of the run with the maximum avg_score
\* for that model id.
C15_ReleaseChartKeepsBestPerModel ==
    (cRelease # PendingData /\ cRelease # NoChart) =>
        /\ { cRelease[p].key : p \in 1..Len(cRelease) } = { cRuns[i].model : i \in DatedRows }
        /\ \A p, q \in 1..Len(cRelease) : cRelease[p].key = cRelease[q].key => p = q
        /\ \A p \in 1..Len(cRelease) :
              10 * cRelease[p].score - 5 <= BestScoreOf(cRelease[p].key)
                  /\ BestScoreOf(cRelease[p].key) < 10 * cRelease[p].score + 5

\* the cost of the i-th row, times TokensPerPriceUnit; 0 when it has none
ChartCostOf(i) ==
    IF ChartModelOf(i) = NoModel \/ ChartModelOf(i).costPer1MTokens = NoPrice
    THEN 0
    ELSE cRuns[i].total_input_tokens * ChartModelOf(i).costPer1MTokens.input
           + cRuns[i].total_output_tokens * ChartModelOf(i).costPer1MTokens.output

\* rows with a defined, positive cost and a defined avg_score
RankedRows == { i \in 1..Len(cRuns) : ChartCostOf(i) > 0 /\ cRuns[i].avg_score # NoNum }

\* C16 as stated: a rendered cost-efficiency chart contains exactly the rows with a
\* defined, positive cost and a defined avg_score, ordered by score_pct / cost
\* descending: of two such rows with the same score the strictly cheaper one comes
\* first.
C16_EfficiencyChartRanksByRatio ==
    (cEffData # PendingData /\ cEffData # NoChart) =>
        /\ { cEffData[p].run : p \in 1..Len(cEffData) } = RankedRows
        /\ \A p, q \in 1..Len(cEffData) :
              LET i == cEffData[p].run
                  j == cEffData[q].run
              IN  (/\ cRuns[i].avg_score = cRuns[j].avg_score
                   /\ ChartCostOf(i) < ChartCostOf(j)) => p < q


====
